---- MODULE Spec2Model ----
(***************************************************************************)
(* Model of auraed's executable supervisor                                 *)
(* (auraed/src/cells/cell_service/executables/executable.rs).              *)
(*                                                                         *)
(* One Executable, the OS process it spawns, the two pipes of that process *)
(* and the two tokio tasks that forward the pipes' lines to the stdout and *)
(* stderr LogChannel.  start and pid are synchronous and are one action    *)
(* each; kill is async and is cut at its two await points (child.wait()    *)
(* and tokio::join!), where the process, the capture tasks and the         *)
(* caller (dropping the future) can interleave.                            *)
(***************************************************************************)
EXTENDS Integers, Sequences, FiniteSets, TLC

----------------------------------------------------------------------------
(* Bounds *)

MaxLines == 2          \* lines a process writes per stream

----------------------------------------------------------------------------
(* Values *)

Streams == {"stdout", "stderr"}
\* the k-th line a process writes to stream s
Line(s, k) == <<s, k>>
Pids == {100}

NoVal == -1            \* Option::None of an integer (pid, exit status, uid)

ESRCH == 3
ECHILD == 10
EPERM == 1
EINTR == 4
\* errno values of start_kill() and of wait() that the code does not single
\* out
SignalErrnos == {EPERM}
WaitErrnos == {EINTR}
\* errno values of a failed spawn: EPERM, ENOENT
SpawnErrnos == {EPERM, 2}
\* uid/gid arguments of start: None or Some(id)
Ids == {NoVal, 1000}

\* raw wait status of a process ended by the signal of start_kill
SIGKILL == 9
\* the signal of a termination from outside the supervisor
SIGTERM == 15
\* raw wait statuses a process ends with on its own: exit(0), exit(1)
OwnStatuses == {0, 256}

\* ExitStatus::from_raw followed by code()/signal(): the low 7 bits hold the
\* terminating signal, bits 8..15 the exit code
FromRaw(raw) ==
    IF raw % 128 = 0
    THEN [kind |-> "exited", n |-> (raw \div 256) % 256]
    ELSE [kind |-> "signaled", n |-> raw % 128]

\* the ECHILD arm reports exit code 1
SynthStatus_One == 1 * 256

\* Ok(Some(ExitStatus::from_raw(0))) of the ECHILD arm
SynthStatus == 0

\* ESRCH is propagated like any other error
IsIgnoredSignalErr_None(e) == FALSE

\* the two errno tests of kill
IsIgnoredSignalErr(e) == e = ESRCH
IsIgnoredWaitErr(e) == e = ECHILD

----------------------------------------------------------------------------
(* State *)

VARIABLES
    state,        \* tag of ExecutableState: "Init", "Started", "Stopped"
    exit_status,  \* payload of Stopped (raw wait status), NoVal otherwise
    child,        \* payload `child` of Started: [h, pid, status]
    handle,       \* payload `stdout`/`stderr` of Started: the JoinHandles
    task,         \* the spawned capture tasks
    proc,         \* the OS process
    procStatus,   \* raw wait status of the exited process
    produced,     \* lines the process has written, per stream
    pipe,         \* lines written and not yet read, per stream
    log,          \* lines sent to the LogChannel, per stream
    pc,           \* position of the pending kill future: "idle", "wait", "join"
    kstatus,      \* local exit_status of the pending kill
    joinDone,     \* streams whose handle completed inside the pending join!
    sigres,       \* what the latest start_kill() returned: 0 or the errno
    waitres,      \* what the latest wait() resolved to: 0 or the errno
    ret,          \* the call that returned in the step into this state, if any:
                  \* [op, via, arg, kind, val]
    ev,           \* the OS calls made in the step into this state, among
                  \* "spawn", "signal" (start_kill) and "wait"
    procs,        \* processes spawn() has created
    seqs,         \* kill calls that ran signal, wait and join to the end
    spawnFailed,  \* a spawn() has failed
    dropped,      \* the Executable has been dropped
    wrapped_command  \* uid and gid set on the command held in Init

vars == <<state, exit_status, child, handle, task, proc, procStatus,
          produced, pipe, log, pc, kstatus, joinDone, sigres, waitres, ret,
          ev, procs, seqs, spawnFailed, dropped, wrapped_command>>

\* a command on which neither uid nor gid has been set
NoIds == [uid |-> NoVal, gid |-> NoVal]
NoChild == [h |-> "none", pid |-> NoVal, status |-> NoVal]
\* a returned call: the operation, the branch of its code that ran (via), the
\* kind of its result (ok, err, panic, or cancel for a dropped future) and the
\* value in it
NoCall ==
    [op |-> "none", via |-> "none", arg |-> "none", kind |-> "none",
     val |-> NoVal]
Ret(op, via, kind, val) ==
    [op |-> op, via |-> via, arg |-> "none", kind |-> kind, val |-> val]
\* the identity a spawn carries: whether a uid or gid is set on the command
\* and whether the OS can apply it
IdArg(uid, gid, applies) ==
    IF uid = NoVal /\ gid = NoVal THEN "none"
    ELSE IF applies THEN "id" ELSE "badid"
StartRet(arg, kind, val) ==
    [Ret("start", "spawn", kind, val) EXCEPT !.arg = arg]

execVars == <<state, exit_status, child, handle>>
osVars == <<proc, procStatus>>
ioVars == <<produced, pipe, log>>
killVars == <<pc, kstatus, joinDone, sigres, waitres>>
countVars == <<procs, seqs, spawnFailed>>

Init ==
    /\ state = "Init"
    /\ exit_status = NoVal
    /\ child = NoChild
    /\ handle = [s \in Streams |-> "none"]
    /\ task = [s \in Streams |-> "none"]
    /\ proc = "none"
    /\ procStatus = NoVal
    /\ produced = [s \in Streams |-> <<>>]
    /\ pipe = [s \in Streams |-> <<>>]
    /\ log = [s \in Streams |-> <<>>]
    /\ pc = "idle"
    /\ kstatus = NoVal
    /\ joinDone = {}
    /\ sigres = NoVal
    /\ waitres = NoVal
    /\ ret = NoCall
    /\ ev = {}
    /\ procs = 0
    /\ seqs = 0
    /\ spawnFailed = FALSE
    /\ dropped = FALSE
    /\ wrapped_command = NoIds

\* a call can be made: the Executable is alive and no kill future borrows it
Callable == pc = "idle" /\ ~dropped

----------------------------------------------------------------------------
(* start *)

\* start spawns again whenever it is called
StartNoop_Respawn ==
    /\ Callable
    /\ state # "Init"
    /\ ev' = {"spawn"}
    /\ procs' = procs + 1
    /\ proc' = "running"
    /\ procStatus' = NoVal
    /\ task' = [s \in Streams |-> "running"]
    /\ handle' = [s \in Streams |-> "held"]
    /\ child' = [h |-> "live", pid |-> CHOOSE p \in Pids : TRUE,
                 status |-> NoVal]
    /\ state' = "Started"
    /\ exit_status' = NoVal
    /\ ret' = Ret("start", "noop", "ok", NoVal)
    /\ UNCHANGED <<ioVars, killVars, seqs, spawnFailed, dropped,
                   wrapped_command>>

\* `let ... = &mut self.state else { return Ok(()) }`
StartNoop ==
    /\ Callable
    /\ state # "Init"
    /\ ret' = Ret("start", "noop", "ok", NoVal)
    /\ ev' = {}
    /\ UNCHANGED <<execVars, task, osVars, ioVars, killVars, countVars,
                   dropped, wrapped_command>>

\* a uid/gid that cannot be applied is skipped and the process is spawned
\* without it
SpawnResults_Skip(uid, gid, applies) == {0} \cup SpawnErrnos

\* what spawn() returns: the OS refuses (errno) or creates the process.  A
\* uid/gid the OS cannot apply makes the child's setuid/setgid fail, which
\* spawn reports as its own failure.
SpawnResults(uid, gid, applies) ==
    IF (uid # NoVal \/ gid # NoVal) /\ ~applies
    THEN {EPERM}
    ELSE {0} \cup SpawnErrnos

\* the state is moved out of Init before spawn() and not put back on failure
StartFail_Poison(arg, e) ==
    /\ ret' = StartRet(arg, "err", e)
    /\ spawnFailed' = TRUE
    /\ state' = "Stopped"
    /\ exit_status' = e
    /\ UNCHANGED <<child, handle, task, osVars, ioVars, procs>>

\* spawn()? failed: the error is returned before any task is spawned and
\* before self.state is assigned
StartFail(arg, e) ==
    /\ ret' = StartRet(arg, "err", e)
    /\ spawnFailed' = TRUE
    /\ UNCHANGED <<execVars, task, osVars, ioVars, procs>>

\* spawn() succeeded: two capture tasks, then self.state = Started{..}
StartOk(arg, p) ==
    /\ proc' = "running"
    /\ procStatus' = NoVal
    /\ task' = [s \in Streams |-> "running"]
    /\ handle' = [s \in Streams |-> "held"]
    /\ child' = [h |-> "live", pid |-> p, status |-> NoVal]
    /\ state' = "Started"
    /\ ret' = StartRet(arg, "ok", NoVal)
    /\ procs' = procs + 1
    /\ UNCHANGED <<exit_status, ioVars, spawnFailed>>

\* `if let Some(uid) = uid { command.uid(uid) }`, the same for gid: an id
\* that is given is set on the command and stays set; None leaves the
\* command as it is
SetIds(uid, gid) ==
    [uid |-> IF uid # NoVal THEN uid ELSE wrapped_command.uid,
     gid |-> IF gid # NoVal THEN gid ELSE wrapped_command.gid]

\* start in Init: the ids are set on the command, then spawn(); the command
\* is gone with the Init state once the process exists
StartSpawn(uid, gid, applies, r, p) ==
    /\ Callable
    /\ state = "Init"
    /\ LET command == SetIds(uid, gid)
           arg == IdArg(command.uid, command.gid, applies)
       IN  /\ r \in SpawnResults(command.uid, command.gid, applies)
           /\ wrapped_command' = IF r = 0 THEN NoIds ELSE command
           /\ IF r = 0 THEN StartOk(arg, p) ELSE StartFail(arg, r)
    /\ ev' = {"spawn"}
    /\ UNCHANGED <<killVars, seqs, dropped>>

Start ==
    \/ StartNoop
    \/ \E uid \in Ids, gid \in Ids, applies \in BOOLEAN,
          r \in {0} \cup SpawnErrnos, p \in Pids :
            StartSpawn(uid, gid, applies, r, p)

----------------------------------------------------------------------------
(* pid *)

\* the handle keeps reporting the id after it has been waited to completion
ChildId_Kept == child.pid

\* process.id(): the handle reports no id once it has been waited to the end
ChildId == IF child.h = "live" THEN child.pid ELSE NoVal

\* pid keeps reporting the process id after the process has been reaped
PidValue_Stale == IF state = "Init" THEN NoVal ELSE CHOOSE p \in Pids : TRUE

PidValue == IF state = "Started" THEN ChildId ELSE NoVal

Pid ==
    /\ Callable
    /\ ret' = Ret("pid", "read", "ok", PidValue)
    /\ ev' = {}
    /\ UNCHANGED <<execVars, task, osVars, ioVars, killVars, countVars,
                   dropped, wrapped_command>>

----------------------------------------------------------------------------
(* kill *)

Ok(v) == [ok |-> TRUE, v |-> v]
Err(e) == [ok |-> FALSE, v |-> e]

\* kill in Init marks the Executable stopped
KillInit_Stop ==
    /\ Callable
    /\ state = "Init"
    /\ state' = "Stopped"
    /\ exit_status' = SynthStatus
    /\ ret' = Ret("kill", "init", "ok", NoVal)
    /\ ev' = {}
    /\ UNCHANGED <<child, handle, task, osVars, ioVars, killVars, countVars,
                   dropped, wrapped_command>>

\* kill in Init reports a status
KillInit_Status ==
    /\ Callable
    /\ state = "Init"
    /\ ret' = Ret("kill", "init", "ok", SynthStatus)
    /\ ev' = {}
    /\ UNCHANGED <<execVars, task, osVars, ioVars, killVars, countVars,
                   dropped, wrapped_command>>

\* ExecutableState::Init { .. } => None
KillInit ==
    /\ Callable
    /\ state = "Init"
    /\ ret' = Ret("kill", "init", "ok", NoVal)
    /\ ev' = {}
    /\ UNCHANGED <<execVars, task, osVars, ioVars, killVars, countVars,
                   dropped, wrapped_command>>

\* kill in Stopped signals the old process id again
KillStopped_Resignal ==
    /\ Callable
    /\ state = "Stopped"
    /\ ev' = {"signal"}
    /\ sigres' = ESRCH
    /\ ret' = Ret("kill", "stopped", "ok", exit_status)
    /\ UNCHANGED <<execVars, task, osVars, ioVars, pc, kstatus, joinDone,
                   waitres, countVars, dropped,
                   wrapped_command>>

\* ExecutableState::Stopped(status) => Some(*status)
KillStopped ==
    /\ Callable
    /\ state = "Stopped"
    /\ ret' = Ret("kill", "stopped", "ok", exit_status)
    /\ ev' = {}
    /\ UNCHANGED <<execVars, task, osVars, ioVars, killVars, countVars,
                   dropped, wrapped_command>>

\* what child.start_kill() can return: 0 is Ok, otherwise the errno.  The
\* signal reaches a process that exists (a zombie included); a process that
\* has gone gives ESRCH; any other refusal can come at any time.
SignalResults ==
    (IF proc \in {"running", "dying", "zombie"} THEN {0} ELSE {})
    \cup (IF proc \in {"zombie", "reaped", "stolen"} THEN {ESRCH} ELSE {})
    \cup SignalErrnos

\* every failure of start_kill() is ignored
SignalPasses_All(r) == TRUE

\* the match on child.start_kill() and its `?`
SignalPasses(r) == r = 0 \/ IsIgnoredSignalErr(r)

\* start_kill(), then the call of child.wait() up to its first poll
KillSignal(r) ==
    /\ Callable
    /\ state = "Started"
    /\ r \in SignalResults
    /\ sigres' = r
    /\ proc' = IF r = 0 /\ proc = "running" THEN "dying" ELSE proc
    /\ IF SignalPasses(r)
       THEN /\ pc' = "wait"
            /\ ev' = {"signal", "wait"}
            /\ waitres' = NoVal
            /\ ret' = NoCall
       ELSE /\ ev' = {"signal"}
            /\ ret' = Ret("kill", "started", "err", r)
            /\ UNCHANGED <<pc, waitres>>
    /\ UNCHANGED <<execVars, task, procStatus, ioVars, kstatus, joinDone,
                   countVars, dropped,
                   wrapped_command>>

\* what the pending child.wait() can resolve to: the status the handle already
\* holds, the status of the exited process (which this wait reaps), ECHILD
\* when something else has reaped it, or any other failure
WaitResults ==
    (IF child.h = "done" THEN {Ok(child.status)} ELSE {})
    \cup (IF child.h = "live" /\ proc = "zombie" THEN {Ok(procStatus)} ELSE {})
    \cup (IF child.h = "live" /\ proc = "stolen" THEN {Err(ECHILD)} ELSE {})
    \cup {Err(e) : e \in WaitErrnos}

\* every wait that does not fail hard yields the synthesized status
WaitMatch_Synth(w) ==
    IF w.ok \/ IsIgnoredWaitErr(w.v) THEN Ok(SynthStatus) ELSE w

\* the match on child.wait().await, before its `?`
WaitMatch(w) ==
    IF w.ok THEN w
    ELSE IF IsIgnoredWaitErr(w.v) THEN Ok(SynthStatus)
    ELSE w

\* child.wait().await resolves
KillWait(w) ==
    /\ ~dropped
    /\ pc = "wait"
    /\ w \in WaitResults
    /\ child' = IF w.ok THEN [child EXCEPT !.h = "done", !.status = w.v]
                ELSE child
    /\ proc' = IF w.ok /\ proc = "zombie" THEN "reaped" ELSE proc
    /\ waitres' = IF w.ok THEN 0 ELSE w.v
    /\ ev' = {}
    /\ IF WaitMatch(w).ok
       THEN /\ kstatus' = WaitMatch(w).v
            /\ pc' = "join"
            /\ ret' = NoCall
       ELSE /\ ret' = Ret("kill", "started", "err", w.v)
            /\ pc' = "idle"
            /\ UNCHANGED kstatus
    /\ UNCHANGED <<state, exit_status, handle, task, procStatus, ioVars,
                   joinDone, sigres, countVars, dropped,
                   wrapped_command>>

\* a task that has run to its end, normally or by a panic
Finished(s) == task[s] \in {"done", "panicked"}

\* the capture tasks are not awaited
JoinReady_Any == Streams \ joinDone

\* handles of the pending join! that are ready at this poll
JoinReady == {s \in Streams \ joinDone : Finished(s)}

\* handles of the pending join! whose output an earlier, abandoned join! took:
\* polling such a JoinHandle again panics
JoinStale == {s \in Streams \ joinDone : handle[s] = "taken"}

\* tokio::join!(stdout, stderr) is polled; when both handles have completed,
\* self.state = Stopped(exit_status) and the status is returned
KillJoin ==
    /\ ~dropped
    /\ pc = "join"
    /\ ev' = {}
    /\ IF JoinStale # {}
       THEN /\ ret' = Ret("kill", "started", "panic", NoVal)
            /\ pc' = "idle"
            /\ kstatus' = NoVal
            /\ joinDone' = {}
            /\ UNCHANGED <<execVars, seqs>>
       ELSE /\ JoinReady # {}
            /\ IF joinDone \cup JoinReady = Streams
               THEN /\ state' = "Stopped"
                    /\ exit_status' = kstatus
                    /\ child' = NoChild
                    /\ handle' = [s \in Streams |-> "none"]
                    /\ seqs' = seqs + 1
                    /\ ret' = Ret("kill", "started", "ok", kstatus)
                    /\ pc' = "idle"
                    /\ kstatus' = NoVal
                    /\ joinDone' = {}
               ELSE /\ handle' = [s \in Streams |->
                                    IF s \in JoinReady THEN "taken"
                                    ELSE handle[s]]
                    /\ joinDone' = joinDone \cup JoinReady
                    /\ ret' = NoCall
                    /\ UNCHANGED <<state, exit_status, child, seqs, pc,
                                   kstatus>>
    /\ UNCHANGED <<task, osVars, ioVars, sigres, waitres, procs, spawnFailed,
                   dropped, wrapped_command>>

\* the caller drops the kill future at one of its await points
KillCancel ==
    /\ ~dropped
    /\ pc \in {"wait", "join"}
    /\ ret' = Ret("kill", "started", "cancel", NoVal)
    /\ ev' = {}
    /\ pc' = "idle"
    /\ kstatus' = NoVal
    /\ joinDone' = {}
    /\ UNCHANGED <<execVars, task, osVars, ioVars, sigres, waitres,
                   countVars, dropped,
                   wrapped_command>>

Kill ==
    \/ KillInit
    \/ KillStopped
    \/ \E r \in {0, ESRCH} \cup SignalErrnos : KillSignal(r)
    \/ \E w \in WaitResults : KillWait(w)
    \/ KillJoin
    \/ KillCancel

----------------------------------------------------------------------------
(* the capture tasks: while let Ok(Some(line)) = next_line().await *)

\* a step of a task or of the surroundings: no call returns, and the
\* Executable makes no OS call
Background == ret' = NoCall /\ ev' = {}

\* the write end of the stream's pipe is closed
PipeClosed == proc \in {"zombie", "reaped", "stolen"}

\* a line is sent out of order: the newest line in the pipe overtakes the
\* older ones
TaskSend_Newest(s) ==
    /\ task[s] = "running"
    /\ pipe[s] # <<>>
    /\ log' = [log EXCEPT ![s] = Append(@, pipe[s][Len(pipe[s])])]
    /\ pipe' = [pipe EXCEPT ![s] = SubSeq(@, 1, Len(@) - 1)]
    /\ Background
    /\ UNCHANGED <<execVars, task, osVars, produced, killVars, countVars,
                   dropped, wrapped_command>>

\* Ok(Some(line)): log_channel.send(line)
TaskSend(s) ==
    /\ task[s] = "running"
    /\ pipe[s] # <<>>
    /\ log' = [log EXCEPT ![s] = Append(@, Head(pipe[s]))]
    /\ pipe' = [pipe EXCEPT ![s] = Tail(@)]
    /\ Background
    /\ UNCHANGED <<execVars, task, osVars, produced, killVars, countVars,
                   dropped, wrapped_command>>

\* Ok(None): end of stream, the loop and the task end
TaskEof(s) ==
    /\ task[s] = "running"
    /\ pipe[s] = <<>>
    /\ PipeClosed
    /\ task' = [task EXCEPT ![s] = "done"]
    /\ Background
    /\ UNCHANGED <<execVars, osVars, ioVars, killVars, countVars, dropped,
                   wrapped_command>>

\* a failed read is skipped and the loop goes on with the next line
TaskReadErr_Skip(s) ==
    /\ task[s] = "running"
    /\ pipe[s] # <<>>
    /\ pipe' = [pipe EXCEPT ![s] = Tail(@)]
    /\ Background
    /\ UNCHANGED <<execVars, task, osVars, produced, log, killVars, countVars,
                   dropped, wrapped_command>>

\* Err(_): the read of a line fails (a line that is not UTF-8, an I/O
\* error); the loop and the task end without an error
TaskReadErr(s) ==
    /\ task[s] = "running"
    /\ pipe[s] # <<>>
    /\ task' = [task EXCEPT ![s] = "done"]
    /\ Background
    /\ UNCHANGED <<execVars, osVars, ioVars, killVars, countVars, dropped,
                   wrapped_command>>

\* the task panics while it handles a line it has read
TaskPanic(s) ==
    /\ task[s] = "running"
    /\ pipe[s] # <<>>
    /\ pipe' = [pipe EXCEPT ![s] = Tail(@)]
    /\ task' = [task EXCEPT ![s] = "panicked"]
    /\ Background
    /\ UNCHANGED <<execVars, osVars, produced, log, killVars, countVars,
                   dropped, wrapped_command>>

Task ==
    \E s \in Streams :
        TaskSend(s) \/ TaskEof(s) \/ TaskReadErr(s) \/ TaskPanic(s)

----------------------------------------------------------------------------
(* the OS process and its surroundings *)

\* the process writes a line to one of its two pipes
ProcWrite(s) ==
    /\ proc \in {"running", "dying"}
    /\ Len(produced[s]) < MaxLines
    /\ produced' = [produced EXCEPT ![s] = Append(@, Line(s, Len(@) + 1))]
    /\ pipe' = [pipe EXCEPT ![s] = Append(@, Line(s, Len(produced[s]) + 1))]
    /\ Background
    /\ UNCHANGED <<execVars, task, osVars, log, killVars, countVars, dropped,
                   wrapped_command>>

\* the process ends: on its own, or terminated by a signal from outside
\* (SIGTERM), or by the SIGKILL of start_kill or of the drop of the handle
ProcExit(st) ==
    /\ \/ proc = "running" /\ st \in OwnStatuses \cup {SIGTERM}
       \/ proc = "dying" /\ st = SIGKILL
    /\ proc' = "zombie"
    /\ procStatus' = st
    /\ Background
    /\ UNCHANGED <<execVars, task, ioVars, killVars, countVars, dropped,
                   wrapped_command>>

\* something other than this Executable reaps the exited process: the
\* status it had (procStatus) is no longer there for this Executable's wait
ExternalReap ==
    /\ proc = "zombie"
    /\ proc' = "stolen"
    /\ Background
    /\ UNCHANGED <<execVars, task, procStatus, ioVars, killVars, countVars,
                   dropped, wrapped_command>>

\* the drop of the handle leaves the process alone
Drop_Detach ==
    /\ Callable
    /\ dropped' = TRUE
    /\ Background
    /\ UNCHANGED <<execVars, task, osVars, ioVars, killVars, countVars,
                   wrapped_command>>

\* the owner drops the Executable; kill_on_drop(true) signals a process
\* whose handle is still live
Drop ==
    /\ Callable
    /\ dropped' = TRUE
    /\ proc' = IF state = "Started" /\ child.h = "live" /\ proc = "running"
               THEN "dying" ELSE proc
    /\ Background
    /\ UNCHANGED <<execVars, task, procStatus, ioVars, killVars, countVars,
                   wrapped_command>>

Env ==
    \/ \E s \in Streams : ProcWrite(s)
    \/ \E st \in OwnStatuses \cup {SIGKILL, SIGTERM} : ProcExit(st)
    \/ ExternalReap
    \/ Drop

----------------------------------------------------------------------------

Next == Start \/ Pid \/ Kill \/ Task \/ Env

Spec == Init /\ [][Next]_vars

TypeOK ==
    /\ state \in {"Init", "Started", "Stopped"}
    /\ pc \in {"idle", "wait", "join"}
    /\ proc \in {"none", "running", "dying", "zombie", "reaped", "stolen"}
    /\ ev \subseteq {"spawn", "signal", "wait"}
    /\ joinDone \subseteq Streams
    /\ wrapped_command \in [uid : Ids, gid : Ids]
    /\ state # "Init" => wrapped_command = NoIds

----------------------------------------------------------------------------
(* Properties of the lifecycle *)

AllVarsBut_ret ==
    <<execVars, task, osVars, ioVars, killVars, countVars, dropped,
      wrapped_command>>

\* a call of `op` returns in this step
Returns(op) == ret'.op = op

\* C1: the lifecycle state only moves Init -> Started -> Stopped: every step
\* that changes it goes from Init to Started or from Started to Stopped, so
\* no call moves it back, Init never goes straight to Stopped, and Stopped
\* is never left; a call that returns an error, panics or is abandoned
\* leaves it where it was.
C1_StateMonotone ==
    /\ [][state' # state =>
            \/ state = "Init" /\ state' = "Started"
            \/ state = "Started" /\ state' = "Stopped"]_vars
    /\ [][ret'.kind \in {"err", "panic", "cancel"} => state' = state]_vars

\* C1 witness: Stopped is reached by an Executable whose first spawn failed
C1_Witness ==
    /\ state = "Stopped"
    /\ spawnFailed
    /\ seqs = 1

\* C2: outside Init no step spawns a process or launches a capture task, and
\* a start that returns there returns Ok and leaves the Executable as it
\* was; at most one process is ever created, and Stopped is never left.
C2_StartIdempotent ==
    /\ [](procs <= 1)
    /\ [][state # "Init" =>
            /\ "spawn" \notin ev'
            /\ procs' = procs
            /\ \A s \in Streams : task'[s] = "running" => task[s] = "running"
            /\ state = "Stopped" => state' = "Stopped"
            /\ Returns("start") =>
                  /\ ret'.kind = "ok"
                  /\ UNCHANGED AllVarsBut_ret]_vars

\* C2 witness: start has returned on a Stopped Executable
C2_Witness ==
    /\ state = "Stopped"
    /\ ret.op = "start"
    /\ ret.via = "noop"
    /\ procs = 1

\* C3: a spawn() that creates no process makes start return the error with
\* the state still Init and no capture task launched; when a start returns
\* an error nothing has been started; and every start that returns in Init
\* has made a spawn() call, a retry included.
C3_SpawnFailure ==
    /\ [](ret.op = "start" /\ ret.kind = "err" =>
            /\ state = "Init"
            /\ child = NoChild
            /\ proc = "none"
            /\ \A s \in Streams : task[s] = "none" /\ handle[s] = "none")
    /\ []("spawn" \in ev /\ procs = 0 =>
            /\ ret.op = "start"
            /\ ret.kind = "err"
            /\ ret.val \in SpawnErrnos)
    /\ [][state = "Init" /\ Returns("start") => "spawn" \in ev']_vars

\* C3 witness: Started is reached by a start that follows a failed start
C3_Witness ==
    /\ state = "Started"
    /\ ret.op = "start"
    /\ ret.kind = "ok"
    /\ "spawn" \in ev
    /\ spawnFailed

\* C4: a kill that returns in Init returns Ok(None) and changes nothing else;
\* in Init no signal has been sent, no wait made and no process created.
C4_KillInInit ==
    /\ [](state = "Init" =>
            /\ ev \subseteq {"spawn"}
            /\ sigres = NoVal
            /\ waitres = NoVal
            /\ procs = 0
            /\ proc = "none")
    /\ [](state = "Init" /\ ret.op = "kill" =>
            ret.kind = "ok" /\ ret.val = NoVal /\ ev = {})
    /\ [][state = "Init" /\ Returns("kill") =>
            UNCHANGED AllVarsBut_ret]_vars

\* C4 witness: kill has returned on an Executable that is still in Init
C4_Witness ==
    /\ state = "Init"
    /\ ret.op = "kill"
    /\ ret.via = "init"

\* C5: in Stopped no step sends a signal, waits, or changes the Executable,
\* and a kill that returns there returns the recorded status; the kill that
\* reaches Stopped returns the status it records; the full termination
\* sequence has run exactly once when Stopped and never more than once.
C5_KillIdempotent ==
    /\ [](seqs <= 1)
    /\ [](state = "Stopped" => seqs = 1 /\ exit_status # NoVal)
    /\ [](state = "Stopped" /\ ret.op = "kill" =>
            ret.kind = "ok" /\ ret.val = exit_status /\ ev = {})
    /\ [][state = "Stopped" =>
            /\ ev' = {}
            /\ seqs' = seqs
            /\ UNCHANGED <<execVars, osVars, task, ioVars, sigres,
                           waitres>>]_vars

\* C5 witness: a second kill has returned the recorded status
C5_Witness ==
    /\ state = "Stopped"
    /\ ret.op = "kill"
    /\ ret.via = "stopped"
    /\ ret.val = exit_status

----------------------------------------------------------------------------
(* Properties of the termination sequence *)

Ended(s) == task[s] \in {"done", "panicked"}
ExitedZero == [kind |-> "exited", n |-> 0]

\* C6: kill in Started signals, then waits, then joins, then stores Stopped:
\* a wait is pending only after the signal of the same call was requested
\* and passed, the join is entered only from the wait and with the exit
\* status in hand, the task handles are polled only in the join, Stopped is
\* entered only from the join with both capture tasks ended and with the
\* status the call returns; in every state Stopped implies both capture
\* tasks have ended.
C6_TerminationOrder ==
    /\ [](state = "Stopped" => \A s \in Streams : Ended(s))
    /\ [](pc = "wait" => sigres \in {0, ESRCH} /\ waitres = NoVal)
    /\ [](pc = "join" => kstatus # NoVal /\ waitres \in {0, ECHILD})
    /\ []("wait" \in ev => "signal" \in ev)
    /\ [][pc' = "wait" /\ pc # "wait" =>
            pc = "idle" /\ ev' = {"signal", "wait"}]_vars
    /\ [][pc' = "join" /\ pc # "join" => pc = "wait"]_vars
    /\ [][handle' # handle /\ state = "Started" => pc = "join"]_vars
    /\ [][state' = "Stopped" /\ state # "Stopped" =>
            /\ pc = "join"
            /\ \A s \in Streams : Ended(s)
            /\ exit_status' = kstatus
            /\ ret' = Ret("kill", "started", "ok", kstatus)]_vars

\* C6 witness: Stopped after a delivered signal and a successful wait, with
\* lines of both streams forwarded
C6_Witness ==
    /\ state = "Stopped"
    /\ sigres = 0
    /\ waitres = 0
    /\ log["stdout"] # <<>>
    /\ log["stderr"] # <<>>

\* C7: a start_kill() failure other than ESRCH makes kill return that error
\* at once, without a wait; a wait failure other than ECHILD makes kill
\* return that error; in both cases the state stays Started with the child
\* handle and both task handles kept; kill returns an error in no other
\* state.
C7_KillErrorKeepsStarted ==
    /\ [](ret.op = "kill" /\ ret.kind = "err" =>
            /\ state = "Started"
            /\ pc = "idle"
            /\ child.h # "none"
            /\ \A s \in Streams : handle[s] # "none")
    /\ [][("signal" \in ev' /\ sigres' \notin {0, ESRCH}) =>
            /\ ret' = Ret("kill", "started", "err", sigres')
            /\ pc' = "idle"
            /\ "wait" \notin ev'
            /\ UNCHANGED execVars]_vars
    /\ [][pc = "wait" /\ waitres' \notin {NoVal, 0, ECHILD} =>
            /\ ret' = Ret("kill", "started", "err", waitres')
            /\ pc' = "idle"
            /\ UNCHANGED execVars]_vars

\* C7 witness: after a kill that failed in its wait, a kill fails in its
\* signal, and the Executable is still Started
C7_Witness ==
    /\ ret.op = "kill"
    /\ ret.kind = "err"
    /\ ret.val = sigres
    /\ ev = {"signal"}
    /\ waitres \in WaitErrnos

\* C8: a start_kill() that fails with ESRCH returns nothing to the caller:
\* the same step goes on to the wait with the Executable unchanged, and a
\* kill whose signal got ESRCH enters Stopped like any other, with both
\* capture tasks ended and returning the status it records.
C8_EsrchIgnored ==
    /\ [][("signal" \in ev' /\ sigres' = ESRCH) =>
            /\ pc' = "wait"
            /\ "wait" \in ev'
            /\ ret' = NoCall
            /\ UNCHANGED execVars]_vars
    /\ [][state' = "Stopped" /\ state = "Started" /\ sigres = ESRCH =>
            /\ \A s \in Streams : Ended(s)
            /\ exit_status' = kstatus
            /\ ret' = Ret("kill", "started", "ok", kstatus)]_vars

\* C8 witness: Stopped by a kill whose signal got ESRCH
C8_Witness ==
    /\ state = "Stopped"
    /\ sigres = ESRCH
    /\ ret.op = "kill"
    /\ ret.via = "started"

\* C9: a wait that fails with ECHILD yields the status `exited with code 0`
\* and goes on to the join without returning; the Stopped state of that kill
\* holds that status, and every kill that returns there returns it.
C9_EchildSynthesized ==
    /\ [][pc = "wait" /\ waitres' = ECHILD =>
            /\ pc' = "join"
            /\ FromRaw(kstatus') = ExitedZero
            /\ ret' = NoCall
            /\ UNCHANGED execVars]_vars
    /\ [](state = "Stopped" /\ waitres = ECHILD =>
            /\ FromRaw(exit_status) = ExitedZero
            /\ ret.op = "kill" =>
                  ret.kind = "ok" /\ FromRaw(ret.val) = ExitedZero)

\* C9 witness: a later kill has returned the synthesized status
C9_Witness ==
    /\ state = "Stopped"
    /\ waitres = ECHILD
    /\ ret.op = "kill"
    /\ ret.via = "stopped"
    /\ FromRaw(ret.val) = ExitedZero

\* C10: a pid call changes nothing but its own result, and in Init and in
\* Stopped that result is Ok(None).
C10_PidNoneOutsideStarted ==
    /\ [](ret.op = "pid" /\ state \in {"Init", "Stopped"} =>
            ret.kind = "ok" /\ ret.val = NoVal)
    /\ [](ret.op = "pid" => ev = {})
    /\ [][Returns("pid") => UNCHANGED AllVarsBut_ret]_vars

\* C10 witness: pid has returned on a Stopped Executable
C10_Witness ==
    /\ state = "Stopped"
    /\ ret.op = "pid"

----------------------------------------------------------------------------
(* Properties of pid, the logs and the capture tasks *)

\* C11 as stated: every pid call that returns while the state is Started
\* returns Some(id), also after the process has exited on its own and after
\* a kill that failed or was abandoned.
C11_PidSomeInStarted ==
    [](ret.op = "pid" /\ state = "Started" =>
          ret.kind = "ok" /\ ret.val \in Pids)

\* C11: a pid call that returns while the state is Started returns Ok, and
\* returns Some(id) exactly as long as no wait() on the child handle has
\* obtained the exit status: also after the process has exited on its own
\* and after a kill that failed in its signal or wait or was abandoned in
\* its wait; once a wait has completed and the kill was abandoned in (or
\* panicked in) its join, pid returns None although the state is Started.
C11_PidSomeWhileLive ==
    /\ [](ret.op = "pid" /\ state = "Started" =>
            /\ ret.kind = "ok"
            /\ child.h \in {"live", "done"}
            /\ child.h = "live" => ret.val = child.pid /\ ret.val \in Pids
            /\ child.h = "done" => ret.val = NoVal)
    /\ [][state = "Started" /\ child.h = "live" /\ child'.h = "done" =>
            pc = "wait" /\ pc' = "join"]_vars

\* C11 witness: pid returns Some(id) in Started after the process has exited
\* on its own and a kill has failed in its wait
C11_Witness ==
    /\ state = "Started"
    /\ ret.op = "pid"
    /\ ret.val \in Pids
    /\ proc = "zombie"
    /\ procStatus \in OwnStatuses
    /\ waitres \in WaitErrnos

\* C12 as stated: once kill has returned with the state Stopped, each
\* LogChannel has received exactly the lines the process wrote to its
\* stream, in the order written, none lost and none duplicated.
C12_LogComplete ==
    [](state = "Stopped" => \A s \in Streams : log[s] = produced[s])

\* C13: an Executable dropped in Started leaves no process running
\* unsignaled: the drop of a live child handle sends the kill signal
\* (kill_on_drop), whether or not kill was ever called; a dropped Executable
\* takes no further call.
C13_DropKills ==
    /\ [](dropped /\ state = "Started" => proc # "running")
    /\ [][~dropped /\ dropped' /\ state = "Started" /\ proc = "running" =>
            proc' = "dying" /\ state' = "Started"]_vars
    /\ [][dropped => ret' = NoCall /\ UNCHANGED execVars]_vars

\* C13 witness: the process of a dropped, Started Executable on which no
\* kill had signaled has been killed by the drop
C13_Witness ==
    /\ dropped
    /\ state = "Started"
    /\ sigres = NoVal
    /\ proc = "zombie"
    /\ procStatus = SIGKILL
    /\ produced["stdout"] # <<>>

----------------------------------------------------------------------------
(* Properties of a process terminated from outside *)

Signaled(n) == [kind |-> "signaled", n |-> n]

\* C14 as stated: when the process was terminated from outside before kill
\* signaled it, kill returns no ESRCH or ECHILD error, and the status of the
\* kill that reaches Stopped is the synthesized `exited with code 0`.
C14_OutsideTerminationSynthesized ==
    /\ [](ret.op = "kill" /\ ret.kind = "err" => ret.val \notin {ESRCH, ECHILD})
    /\ [](state = "Stopped" /\ procStatus = SIGTERM =>
            FromRaw(exit_status) = ExitedZero)

\* C14: when the process was terminated from outside before kill signaled
\* it, kill never returns ESRCH or ECHILD; the kill that reaches Stopped
\* returns the status it records, which is the real status of the process
\* (terminated by that signal) when the wait obtained it, and the
\* synthesized `exited with code 0` only when the wait got ECHILD because
\* the process had been reaped elsewhere.
C14_OutsideTermination ==
    /\ [](procStatus = SIGTERM /\ ret.op = "kill" /\ ret.kind = "err" =>
            ret.val \in SignalErrnos \cup WaitErrnos)
    /\ [](procStatus = SIGTERM /\ pc = "join" =>
            /\ waitres = 0 => FromRaw(kstatus) = Signaled(SIGTERM)
            /\ waitres = ECHILD => FromRaw(kstatus) = ExitedZero)
    /\ [](state = "Stopped" /\ procStatus = SIGTERM =>
            \/ waitres = 0 /\ FromRaw(exit_status) = Signaled(SIGTERM)
            \/ waitres = ECHILD /\ FromRaw(exit_status) = ExitedZero)
    /\ [][state = "Started" /\ state' = "Stopped" /\ procStatus = SIGTERM =>
            ret' = Ret("kill", "started", "ok", exit_status')]_vars

\* C14 witness: a kill called after the process was terminated from outside
\* has returned the real status, `terminated by signal`
C14_Witness ==
    /\ state = "Stopped"
    /\ procStatus = SIGTERM
    /\ proc = "reaped"
    /\ ret = Ret("kill", "started", "ok", SIGTERM)
    /\ FromRaw(ret.val) = Signaled(SIGTERM)

----------------------------------------------------------------------------
(* Properties of the capture tasks *)

IsPrefix(a, b) == Len(a) <= Len(b) /\ SubSeq(b, 1, Len(a)) = a

\* C15: in every reachable state, under every interleaving of the two
\* capture tasks with each other and with kill, the lines sent to each
\* LogChannel are a prefix of the lines the process wrote to that stream, in
\* the order written; each send appends the oldest unread line of its own
\* stream and touches nothing of the other stream.
C15_PrefixOrder ==
    /\ [](\A s \in Streams : IsPrefix(log[s], produced[s]))
    /\ [][\A s \in Streams : log'[s] # log[s] =>
            /\ pipe[s] # <<>>
            /\ log'[s] = Append(log[s], Head(pipe[s]))
            /\ \A o \in Streams \ {s} :
                  log'[o] = log[o] /\ pipe'[o] = pipe[o]]_vars

\* C15 witness: while a kill is pending, both channels hold lines and stdout
\* holds two, with a stderr line still unread
C15_Witness ==
    /\ pc # "idle"
    /\ Len(log["stdout"]) = 2
    /\ Len(log["stderr"]) = 1
    /\ pipe["stderr"] # <<>>

\* C16 as stated: a join step that ends with the signal and the wait passed
\* and both capture tasks ended, in whatever way, ends in Stopped and
\* returns the exit status obtained from the wait.
C16_JoinIgnoresTaskOutcome ==
    [][/\ pc = "join"
       /\ \A s \in Streams : Ended(s)
       /\ pc' = "idle"
       /\ ret'.kind # "cancel"
       => /\ state' = "Stopped"
          /\ exit_status' = kstatus
          /\ ret' = Ret("kill", "started", "ok", kstatus)]_vars

----------------------------------------------------------------------------
(* Termination of kill, under fair scheduling *)

\* one step of the capture task of stream s
TaskStep(s) == TaskSend(s) \/ TaskEof(s) \/ TaskReadErr(s) \/ TaskPanic(s)

\* the pending wait resolves with a status or with ECHILD
WaitResolves ==
    \E w \in WaitResults : (w.ok \/ IsIgnoredWaitErr(w.v)) /\ KillWait(w)

\* the runtime schedules each capture task that can step and polls a kill
\* future whose wait or join can make progress; a signaled process exits
FairSpec ==
    /\ Spec
    /\ \A s \in Streams : WF_vars(TaskStep(s))
    /\ WF_vars(ProcExit(SIGKILL))
    /\ WF_vars(WaitResolves)
    /\ WF_vars(KillJoin)

\* C17 as stated: under fair scheduling, a pending wait of kill resolves,
\* each capture task whose pipe is closed ends, and a kill that has reached
\* its join, unless its caller abandons it, completes the join and makes the
\* state Stopped.
C17_KillTerminates ==
    /\ (pc = "wait") ~> (pc # "wait")
    /\ \A s \in Streams : (PipeClosed /\ task[s] = "running") ~> Ended(s)
    /\ (pc = "join") ~> (state = "Stopped" \/ ret.kind = "cancel")

----------------------------------------------------------------------------
(* Properties of the identity switch and of an abandoned kill *)

\* C18 as stated: a start whose uid or gid cannot be applied ignores that
\* failure: it returns Ok and the state is Started.
C18_IdentityBestEffort ==
    [](ret.op = "start" /\ ret.arg = "badid" =>
          ret.kind = "ok" /\ state = "Started")

\* C18: a start whose command carries a uid or gid that cannot be applied
\* fails in its spawn: it returns that error, the state stays Init, and no
\* process and no capture task exists; the ids stay set on the command for
\* the next start; no Executable is Started by a spawn whose identity could
\* not be applied.
C18_IdentityFailureFailsStart ==
    /\ [](ret.op = "start" /\ ret.arg = "badid" =>
            /\ ret.kind = "err"
            /\ ret.val = EPERM
            /\ "spawn" \in ev
            /\ state = "Init"
            /\ child = NoChild
            /\ proc = "none"
            /\ wrapped_command # NoIds
            /\ \A s \in Streams : task[s] = "none")
    /\ [][state = "Init" /\ state' = "Started" => ret'.arg \in {"none", "id"}]_vars
    /\ [][state = "Init" /\ state' = "Init" =>
            /\ wrapped_command.uid # NoVal =>
                  wrapped_command'.uid = wrapped_command.uid
            /\ wrapped_command.gid # NoVal =>
                  wrapped_command'.gid = wrapped_command.gid]_vars

\* C18 witness: a start has failed in its spawn on a uid, set on the command,
\* that cannot be applied
C18_Witness ==
    /\ state = "Init"
    /\ ret.op = "start"
    /\ ret.arg = "badid"
    /\ ret.kind = "err"
    /\ wrapped_command.uid # NoVal
    /\ wrapped_command.gid = NoVal
    /\ spawnFailed

\* C19 as stated: a kill abandoned at one of its suspension points leaves
\* the Executable Started and as a later kill needs it: the child handle and
\* both task handles are still there to be awaited, so that no later kill
\* panics and a later kill can run signal, wait and join and reach Stopped.
C19_CancelSafe ==
    /\ [](ret.kind = "cancel" =>
            /\ ret.op = "kill"
            /\ state = "Started"
            /\ pc = "idle")
    /\ [](state = "Started" /\ pc = "idle" =>
            \A s \in Streams : handle[s] = "held")
    /\ [](ret.op = "kill" => ret.kind # "panic")

----------------------------------------------------------------------------
(* Properties of the end of a capture task *)

\* C20: a capture task ends at end-of-stream or at its first failed read: a
\* running task ends either with its pipe closed and drained, or on a line
\* it could not read, which it leaves unforwarded and ends without an error
\* (or by a panic while handling a line); a line leaves the pipe only by
\* being sent, never skipped by a task that goes on; a task that has ended
\* stays ended and sends nothing more, whatever the process writes
\* afterwards; and the step that ends one task leaves the other stream's
\* task, pipe and log as they were.
C20_TaskStop ==
    /\ [][\A s \in Streams : task[s] = "running" /\ task'[s] # "running" =>
            \/ task'[s] = "done" /\ pipe[s] = <<>> /\ PipeClosed
            \/ task'[s] = "done" /\ pipe[s] # <<>> /\ pipe'[s] = pipe[s]
            \/ task'[s] = "panicked" /\ pipe[s] # <<>>]_vars
    /\ [][\A s \in Streams : Len(pipe'[s]) < Len(pipe[s]) =>
            \/ log'[s] = Append(log[s], Head(pipe[s]))
            \/ task'[s] = "panicked"]_vars
    /\ [][\A s \in Streams : Ended(s) =>
            task'[s] = task[s] /\ log'[s] = log[s]]_vars
    /\ [][\A s \in Streams : task[s] = "running" /\ task'[s] # "running" =>
            \A o \in Streams \ {s} :
                task'[o] = task[o] /\ log'[o] = log[o] /\ pipe'[o] = pipe[o]]_vars

\* C20 witness: the stdout task has ended on a failed read after forwarding
\* one line, with lines left unforwarded, while the stderr task has
\* forwarded every stderr line and ended at end-of-stream
C20_Witness ==
    /\ task["stdout"] = "done"
    /\ Len(log["stdout"]) = 1
    /\ pipe["stdout"] # <<>>
    /\ task["stderr"] = "done"
    /\ pipe["stderr"] = <<>>
    /\ log["stderr"] = produced["stderr"]
    /\ Len(log["stderr"]) = MaxLines

====
